---- MODULE Spec2Model ----
(***************************************************************************)
(* Commit-graph layout of the Graph view (processCommitsForGraph, the edge *)
(* rendering and getBranchColor), modelled from the reservation-based      *)
(* variant of the view.                                                    *)
(*                                                                         *)
(* A sha is a positive integer; Missing is a sha that no commit of the     *)
(* window carries.  A ref name is a sequence of UTF-16 code units.         *)
(* A Map is modelled as the sequence of its values in insertion order      *)
(* (Map.set on an existing key replaces the value in place).               *)
(***************************************************************************)
EXTENDS Integers, Sequences, FiniteSets, TLC

\* ---------------------------------------------------------------- bounds
MaxCommits == 3        \* longest commit window laid out without refs
MaxRefCommits == 2     \* longest commit window laid out together with refs
MaxRefs == 2           \* longest ref list
MaxNameLen == 6        \* longest branch name hashed by getBranchColor
MaxParents == 2        \* longest parents list of a commit
MaxRepeatCommits == 2  \* longest window that is laid out again
MaxCalls == 3          \* most calls of processCommitsForGraph in a row
MaxLoads == 3          \* most calls of loadData of one Graph view
MaxSteps == 3          \* most steps of an automation script
MaxScripts == 2        \* most stored automation scripts, and their ids
MaxTime == 3           \* last clock value at which a handler reads the clock
MaxExecutions == 22    \* the same, where only a script without steps runs
MaxStoreCalls == 3     \* most loadScripts and executeScript calls of the store
MaxRepos == 3          \* most repositories in a list, and their ids
MaxChecks == 3         \* most connectivity checks made by the timer

\* a sha that no commit of any window carries
Missing == MaxCommits + MaxRefCommits + 1

\* ------------------------------------------------------------- constants
RowHeight == 80        \* y = index * 80
LaneWidth == 40        \* x = lane * 40
HistoryLimit == 20     \* if (history.length > 20) history.shift()
Limb == 256 * 256       \* numbers are held as hi * 65536 + lo, 0 <= lo < 65536

VARIABLES
    rawCommits,    \* argument of processCommitsForGraph (newest first)
    branches,      \* the component's ref list read by processCommitsForGraph
    pc,            \* position in processCommitsForGraph / getBranchColor
    commitMap,     \* Map<sha, CommitNode>, values in insertion order
    childCount,    \* Map<sha, number>
    commitToLane,  \* Map<sha, lane>
    activeLanes,   \* Set<number>
    idx,           \* number of entries of `reversed` already processed
    taken,         \* which branch of the lane choice the last iteration took
    commits,       \* the component's laid-out nodes (setCommits)
    history,       \* the finished earlier calls: their input and output
    lanes,         \* the simpler variant's lanes: the shas put on each
    branchName,    \* argument of getBranchColor
    hash,          \* getBranchColor's running hash
    charIdx,       \* getBranchColor's loop index i
    color          \* result of getBranchColor, "none" before the call

VARIABLES
    repo,            \* what the main process answers: refs, commits per selection
    selectedBranch,  \* the Graph view's branch filter
    loading,         \* the Graph view's loading flag
    loads            \* the calls of loadData made so far, each with its closure

loadVars == <<repo, selectedBranch, loading, loads>>

\* the locals of processCommitsForGraph when it is modelled in steps
layoutLocals == <<rawCommits, commitMap, childCount, commitToLane, activeLanes,
                  idx, taken, history, lanes>>

VARIABLES
    scripts,           \* store.get('automation-scripts'): the stored scripts
    executionHistory,  \* Map<scriptId, AutomationExecution[]>
    runs,              \* the calls of the execute handler that are under way
    request,           \* the last handler call or continuation that ran
    reply,             \* what the last handler call that ended has returned
    now                \* the clock read by Date

autoVars == <<scripts, executionHistory, runs, request, reply, now>>

VARIABLES
    isExecuting,       \* useAutomationStore: isExecuting
    currentExecution,  \* useAutomationStore: currentExecution, <<>> for null
    isLoading,         \* useAutomationStore: isLoading
    storeScripts,      \* useAutomationStore: scripts
    calls,             \* the store's loadScripts and executeScript calls so far
    repositories,      \* useRepositoryStore: repositories
    selectedRepo,      \* useRepositoryStore: selectedRepo, <<>> for null
    isOnline,          \* network.ts: let isOnline
    checks,            \* the requests made by checkConnection so far
    broadcasts,        \* the isOnline values sent by notifyStatusChange
    checkStatus        \* the last answer of the check-status handler, if any

storeVars == <<isExecuting, currentExecution, isLoading, storeScripts, calls>>

repoVars == <<repositories, selectedRepo>>

netVars == <<isOnline, checks, broadcasts, checkStatus>>

uiVars == <<storeVars, repoVars, netVars>>

\* the state of the parts of the application other than the Graph layout
restVars == <<loadVars, autoVars, uiVars>>

vars == <<rawCommits, branches, pc, commitMap, childCount, commitToLane,
          activeLanes, idx, taken, commits, history, lanes, branchName, hash,
          charIdx, color, restVars>>

layoutVars == <<rawCommits, branches, commitMap, childCount, commitToLane,
                activeLanes, idx, taken, commits, history, lanes>>

colorVars == <<branchName, hash, charIdx, color>>

\* ------------------------------------------------------- generic helpers
Range(s) == {s[i] : i \in 1..Len(s)}

Min(S) == CHOOSE m \in S : \A n \in S : m <= n

Max(S) == CHOOSE m \in S : \A n \in S : m >= n

Includes(s, e) == \E i \in 1..Len(s) : s[i] = e

Reverse(s) == [i \in 1..Len(s) |-> s[Len(s) + 1 - i]]

SeqsUpTo(S, n) == UNION {[1..k -> S] : k \in 0..n}

\* ------------------------------------------------------------------- Map
\* index of the entry of Map m with key sha, 0 when absent
MapIndex(m, sha) ==
    LET S == {i \in 1..Len(m) : m[i].sha = sha}
    IN  IF S = {} THEN 0 ELSE Min(S)

MapHas(m, sha) == MapIndex(m, sha) # 0

MapGet(m, sha) == m[MapIndex(m, sha)]

\* Map.set: a new key is appended, an existing key keeps its position and
\* gets the new value
MapSet(m, node) ==
    IF MapHas(m, node.sha)
    THEN [m EXCEPT ![MapIndex(m, node.sha)] = node]
    ELSE Append(m, node)

ShaSet(raw) == {raw[i].sha : i \in 1..Len(raw)}

UniqueShas(raw) == \A i, j \in 1..Len(raw) : raw[i].sha = raw[j].sha => i = j

\* ---------------------------------------------------------------- inputs
\* Shas are compared only for equality, so a window is taken up to renaming:
\* the shas of a window are numbered in order of first appearance.
Canonical(s) ==
    \A i \in 1..Len(s) : s[i] <= 1 + Max({0} \cup {s[j] : j \in 1..(i - 1)})

ShaSeqs(n) == {s \in SeqsUpTo(1..n, n) : Canonical(s)}

Distinct(s) == \A i, j \in 1..Len(s) : i # j => s[i] # s[j]

ParentLists(S) == {p \in SeqsUpTo(S \cup {Missing}, MaxParents) : Distinct(p)}

RECURSIVE Ancestors(_, _, _)
Ancestors(par, F, n) ==
    LET G == F \cup {q \in DOMAIN par : \E s \in F : Includes(par[s], q)}
    IN  IF n = 0 THEN F ELSE Ancestors(par, G, n - 1)

\* the history is a directed acyclic graph: no commit is its own ancestor
Acyclic(par) ==
    \A s \in DOMAIN par :
        ~ \E q \in Ancestors(par, {q \in DOMAIN par : Includes(par[s], q)},
                             Cardinality(DOMAIN par)) : q = s

\* a sha identifies its commit: two entries with one sha are the same commit
ParentMaps(S) == {par \in [S -> ParentLists(S)] : Acyclic(par)}

MkCommits(s, par) == [i \in 1..Len(s) |-> [sha |-> s[i], parents |-> par[s[i]]]]

CommitLists(n) ==
    UNION {{MkCommits(s, par) : par \in ParentMaps(Range(s))} : s \in ShaSeqs(n)}

\* a commit may come without a parents list: the record has no such field
HasParents(c) == "parents" \in DOMAIN c

\* the windows got from w by leaving out parents lists that are empty
Loosened(w) ==
    {[i \in 1..Len(w) |-> IF i \in I THEN [sha |-> w[i].sha] ELSE w[i]] :
        I \in SUBSET {i \in 1..Len(w) : w[i].parents = <<>>}}

LooseLists(n) == UNION {Loosened(w) : w \in CommitLists(n)}

Chars == {47, 97, 122, 65535}

RefNames == {<<97>>, <<122, 47>>}

Refs(n) == [name : RefNames, sha : (1..n) \cup {Missing}]

RefLists(n) == SeqsUpTo(Refs(n), MaxRefs)

\* --------------------------------------------- processCommitsForGraph
\* faulty variant: rows counted from 1
NewNode_OneBased(commit, index) ==
    commit @@ [x |-> 0, y |-> (index + 1) * RowHeight, lane |-> 0,
               branches |-> <<>>]

\* { ...commit, x: 0, y: index * 80, lane: 0, branches: [] }
NewNode(commit, index) ==
    commit @@ [x |-> 0, y |-> index * RowHeight, lane |-> 0, branches |-> <<>>]

\* rawCommits.forEach((commit, index) => commitMap.set(commit.sha, node))
RECURSIVE InitNodes(_, _, _)
InitNodes(raw, k, m) ==
    IF k > Len(raw) THEN m
    ELSE InitNodes(raw, k + 1, MapSet(m, NewNode(raw[k], k - 1)))

\* childCount: one count per parent reference
CountChildren(raw) ==
    LET P == UNION {IF HasParents(raw[i]) THEN Range(raw[i].parents) ELSE {} :
                       i \in 1..Len(raw)}
    IN  [p \in P |-> Cardinality({<<i, j>> \in (1..Len(raw)) \X (1..MaxParents + 1) :
                                     /\ HasParents(raw[i])
                                     /\ j <= Len(raw[i].parents)
                                     /\ raw[i].parents[j] = p})]

\* rawCommits.find(c => c.parents && c.parents[0] === sha), 0 when undefined
FirstChild(raw, sha) ==
    LET S == {i \in 1..Len(raw) : /\ HasParents(raw[i])
                                   /\ Len(raw[i].parents) > 0
                                   /\ raw[i].parents[1] = sha}
    IN  IF S = {} THEN 0 ELSE Min(S)

\* faulty variant: the search for a free lane is left out
LowestFree_NoSearch(active) == 0

\* lane = 0; while (activeLanes.has(lane)) lane++
LowestFree(active) ==
    Min({l \in 0..Cardinality(active) : l \notin active})

\* faulty variant: a commit that is not its parent's main child is a branch
LaneBranch_ByMainChild(raw, c2l, commit) ==
    LET fc == FirstChild(raw, commit.sha)
    IN  IF fc # 0 /\ raw[fc].sha \in DOMAIN c2l THEN "child"
        ELSE IF /\ HasParents(commit) /\ Len(commit.parents) > 0
                /\ commit.parents[1] \in DOMAIN c2l
             THEN LET pmc == FirstChild(raw, commit.parents[1])
                  IN  IF pmc # 0 /\ raw[pmc].sha # commit.sha
                      THEN "branch" ELSE "parent"
             ELSE "fallback"

\* which branch of the lane choice an iteration takes
LaneBranch(raw, c2l, commit) ==
    LET fc == FirstChild(raw, commit.sha)
    IN  IF fc # 0 /\ raw[fc].sha \in DOMAIN c2l THEN "child"
        ELSE IF /\ HasParents(commit) /\ Len(commit.parents) > 0
                /\ commit.parents[1] \in DOMAIN c2l
             THEN LET pmc == FirstChild(raw, commit.parents[1])
                  IN  IF pmc # 0 /\ raw[pmc].sha \in DOMAIN c2l
                      THEN "branch" ELSE "parent"
             ELSE "fallback"

\* faulty variant: every commit is given a new lane
PickLane_AlwaysFresh(raw, c2l, active, commit) == LowestFree(active)

PickLane(raw, c2l, active, commit) ==
    LET b == LaneBranch(raw, c2l, commit)
    IN  CASE b = "child"  -> c2l[raw[FirstChild(raw, commit.sha)].sha]
          [] b = "parent" -> c2l[commit.parents[1]]
          [] OTHER        -> LowestFree(active)

\* faulty variant: a lane is never released
AllChildrenDone_Never(raw, c2l, sha) == FALSE

\* children.length === 0 || children.every(c => commitToLane.has(c.sha))
AllChildrenDone(raw, c2l, sha) ==
    \A i \in 1..Len(raw) :
        (HasParents(raw[i]) /\ Includes(raw[i].parents, sha))
        => raw[i].sha \in DOMAIN c2l

\* faulty variant: the column is not moved with the lane
SetLane_LaneOnly(m, sha, lane) ==
    [m EXCEPT ![MapIndex(m, sha)] = [@ EXCEPT !.lane = lane]]

\* node.lane = lane; node.x = lane * 40
SetLane(m, sha, lane) ==
    [m EXCEPT ![MapIndex(m, sha)] = [@ EXCEPT !.lane = lane, !.x = lane * LaneWidth]]

\* faulty variant: a label replaces the earlier labels of the node
RECURSIVE AttachBranches_Overwrite(_, _, _)
AttachBranches_Overwrite(m, refs, k) ==
    IF k > Len(refs) THEN m
    ELSE IF MapHas(m, refs[k].sha)
         THEN AttachBranches_Overwrite(
                  [m EXCEPT ![MapIndex(m, refs[k].sha)].branches = <<refs[k].name>>],
                  refs, k + 1)
         ELSE AttachBranches_Overwrite(m, refs, k + 1)

\* branches.forEach(branch => commitMap.get(branch.sha)?.branches.push(name))
RECURSIVE AttachBranches(_, _, _)
AttachBranches(m, refs, k) ==
    IF k > Len(refs) THEN m
    ELSE IF MapHas(m, refs[k].sha)
         THEN AttachBranches(
                  [m EXCEPT ![MapIndex(m, refs[k].sha)].branches = Append(@, refs[k].name)],
                  refs, k + 1)
         ELSE AttachBranches(m, refs, k + 1)


\* -------------------------------------------------------- getBranchColor
\* JavaScript numbers of this computation are integers below 2^34 in size,
\* held here in two limbs so that no intermediate value leaves the range of
\* the model checker's integers: Num(hi, lo) stands for hi * 65536 + lo.
Num(hi, lo) == [hi |-> hi, lo |-> lo]

\* carry the low limb back into 0..65535
Norm(hi, lo) == Num(hi + ((lo - (lo % Limb)) \div Limb), lo % Limb)

NumAdd(a, b) == Norm(a.hi + b.hi, a.lo + b.lo)

NumSub(a, b) == Norm(a.hi - b.hi, a.lo - b.lo)

IsNegative(a) == a.hi < 0

\* ToInt32: reduce modulo 2^32 into -2^31 .. 2^31 - 1
ToInt32(a) ==
    LET h == a.hi % Limb
    IN  Num(IF h >= Limb \div 2 THEN h - Limb ELSE h, a.lo)

\* hash << 5: ToInt32 of the operand, shift, ToInt32 of the result
ShiftLeft5(a) ==
    LET v == ToInt32(a)
    IN  ToInt32(Norm(v.hi * 32, v.lo * 32))

\* Math.abs
NumAbs(a) == IF IsNegative(a) THEN NumSub(Num(0, 0), a) ELSE a

\* a % n of JavaScript for a >= 0 and 0 < n < 65536
NumMod(a, n) == ((a.hi % n) * (Limb % n) + a.lo) % n

\* hash = code + ((hash << 5) - hash)
HashStep(h, code) == NumAdd(Num(0, code), NumSub(ShiftLeft5(h), h))

\* the loop over the characters k .. length of the name
RECURSIVE HashFrom(_, _, _)
HashFrom(name, k, h) ==
    IF k > Len(name) THEN h
    ELSE HashFrom(name, k + 1, HashStep(h, name[k]))

BranchHash(name) == HashFrom(name, 1, Num(0, 0))

colors == <<"rgb(0, 212, 255)", "rgb(34, 197, 94)", "rgb(251, 191, 36)",
            "rgb(244, 63, 94)", "rgb(168, 85, 247)", "rgb(236, 72, 153)">>

\* colors[i] of JavaScript: undefined outside the array
ColorAt(i) == IF i \in 0..(Len(colors) - 1) THEN colors[i + 1] ELSE "undefined"

\* faulty variant: Math.abs is left out; the remainder takes the sign of the hash
PaletteIndex_NoAbs(h) ==
    IF IsNegative(h) THEN 0 - NumMod(NumAbs(h), Len(colors))
    ELSE NumMod(h, Len(colors))

\* Math.abs(hash) % colors.length
PaletteIndex(h) == NumMod(NumAbs(h), Len(colors))

getBranchColor(name) == ColorAt(PaletteIndex(BranchHash(name)))

\* ---------------------------------------------------------- edge rendering
\* filteredCommits: the nodes that match the search term, in order; shown is
\* the set of positions that match (all of them without a search term)
RECURSIVE FilteredCommits(_, _, _)
FilteredCommits(nodes, shown, k) ==
    IF k > Len(nodes) THEN <<>>
    ELSE (IF k \in shown THEN <<nodes[k]>> ELSE <<>>)
         \o FilteredCommits(nodes, shown, k + 1)

\* filteredCommits.find(c => c.sha === sha), 0 when undefined
FindCommit(nodes, sha) ==
    LET S == {i \in 1..Len(nodes) : nodes[i].sha = sha}
    IN  IF S = {} THEN 0 ELSE Min(S)

\* the element drawn for parent number p of a node: a path (curve) when the
\* lanes differ, a line when they are equal
EdgeOf(nodes, commit, p) ==
    LET parentCommit == nodes[FindCommit(nodes, commit.parents[p])]
    IN  [from  |-> commit.sha,
         to    |-> commit.parents[p],
         x1    |-> 30 + commit.x,       y1 |-> 30 + commit.y,
         x2    |-> 30 + parentCommit.x, y2 |-> 30 + parentCommit.y,
         color |-> IF Len(commit.branches) > 0
                   THEN getBranchColor(commit.branches[1])
                   ELSE "rgb(100, 116, 139)",
         kind  |-> IF commit.lane # parentCommit.lane THEN "path" ELSE "line"]

\* faulty variant: only the edge to the primary parent is drawn
EdgesOfCommit_PrimaryOnly(nodes, commit, p) ==
    IF ~HasParents(commit) \/ p > Len(commit.parents) \/ p > 1 THEN <<>>
    ELSE IF FindCommit(nodes, commit.parents[p]) = 0 THEN <<>>
         ELSE <<EdgeOf(nodes, commit, p)>>

\* commit.parents.map(...).filter(Boolean)
RECURSIVE EdgesOfCommit(_, _, _)
EdgesOfCommit(nodes, commit, p) ==
    IF ~HasParents(commit) \/ p > Len(commit.parents) THEN <<>>
    ELSE (IF FindCommit(nodes, commit.parents[p]) = 0 THEN <<>>
          ELSE <<EdgeOf(nodes, commit, p)>>)
         \o EdgesOfCommit(nodes, commit, p + 1)

\* filteredCommits.flatMap(...)
RECURSIVE EdgesFrom(_, _)
EdgesFrom(nodes, k) ==
    IF k > Len(nodes) THEN <<>>
    ELSE EdgesOfCommit(nodes, nodes[k], 1) \o EdgesFrom(nodes, k + 1)

Edges(nodes) == EdgesFrom(nodes, 1)

\* ---------------------------------------------------------------- actions
\* a handler's Result: { success: false, error } or { success: true, data }
Failure(handler, id) == [handler |-> handler, success |-> FALSE, id |-> id]

Success(handler, id) == [handler |-> handler, success |-> TRUE, id |-> id]

\* the stores and the network monitor as they are constructed
UiIdle ==
    /\ isExecuting = FALSE /\ currentExecution = <<>> /\ isLoading = FALSE
    /\ storeScripts = <<>> /\ calls = <<>>
    /\ repositories = <<>> /\ selectedRepo = <<>>
    /\ isOnline = TRUE /\ checks = <<>> /\ broadcasts = <<>> /\ checkStatus = <<>>

Idle == /\ UiIdle
        /\ commitMap = <<>> /\ childCount = <<>> /\ commitToLane = <<>>
        /\ activeLanes = {} /\ idx = 0 /\ taken = "none" /\ commits = <<>>
        /\ history = <<>> /\ lanes = <<>>
        /\ repo = <<>> /\ selectedBranch = <<>> /\ loading = FALSE /\ loads = <<>>
        /\ scripts = <<>> /\ executionHistory = <<>> /\ runs = <<>> /\ now = 0
        /\ request = [handler |-> "none", id |-> 0] /\ reply = Failure("none", 0)

\* faulty variant: the lane set lives outside the function and is kept
NewActiveLanes_Shared == activeLanes

\* line 72: const activeLanes = new Set()
NewActiveLanes == {}

Init ==
    /\ \/ rawCommits \in CommitLists(MaxCommits) /\ branches = <<>>
       \/ rawCommits \in CommitLists(MaxRefCommits)
          /\ branches \in RefLists(MaxRefCommits) \ {<<>>}
    /\ pc = "start"
    /\ Idle
    /\ branchName = <<>> /\ hash = Num(0, 0) /\ charIdx = 0 /\ color = "none"

\* faulty variant: the input list itself is reversed
RawAfterReverse_InPlace(raw) == Reverse(raw)

\* line 96: [...rawCommits].reverse() reverses a copy, the input keeps its order
RawAfterReverse(raw) == raw

\* lines 67-96: early return, new locals, node initialisation, child
\* counting, reversed copy (after the early return the call has no locals)
Begin ==
    /\ pc = "start"
    /\ IF Len(rawCommits) = 0
       THEN /\ pc' = "done"
            /\ commits' = <<>>
            /\ commitMap' = <<>>
            /\ childCount' = <<>>
            /\ UNCHANGED rawCommits
       ELSE /\ pc' = "lanes"
            /\ commitMap' = InitNodes(rawCommits, 1, <<>>)
            /\ childCount' = CountChildren(rawCommits)
            /\ rawCommits' = RawAfterReverse(rawCommits)
            /\ UNCHANGED commits
    /\ commitToLane' = <<>>
    /\ activeLanes' = NewActiveLanes
    /\ idx' = 0
    /\ taken' = "none"
    /\ UNCHANGED <<branches, history, lanes, colorVars, restVars>>

\* lines 98-155: one iteration of reversed.forEach
LaneStep ==
    /\ pc = "lanes"
    /\ idx < Len(rawCommits)
    /\ LET commit == Reverse(rawCommits)[idx + 1]
           lane   == PickLane(rawCommits, commitToLane, activeLanes, commit)
           c2l    == (commit.sha :> lane) @@ commitToLane
       IN  /\ taken' = LaneBranch(rawCommits, commitToLane, commit)
           /\ commitMap' = SetLane(commitMap, commit.sha, lane)
           /\ commitToLane' = c2l
           /\ activeLanes' = IF AllChildrenDone(rawCommits, c2l, commit.sha)
                             THEN activeLanes \ {lane}
                             ELSE activeLanes \cup {lane}
    /\ idx' = idx + 1
    /\ UNCHANGED <<rawCommits, branches, pc, childCount, commits, history,
                   lanes, colorVars, restVars>>

\* lines 157-165 and setCommits: ref labels, return of the Map's values
AssignBranches ==
    /\ pc = "lanes"
    /\ idx = Len(rawCommits)
    /\ commitMap' = AttachBranches(commitMap, branches, 1)
    /\ commits' = commitMap'
    /\ pc' = "done"
    /\ UNCHANGED <<rawCommits, branches, childCount, commitToLane, activeLanes,
                   idx, taken, history, lanes, colorVars, restVars>>

Next == Begin \/ LaneStep \/ AssignBranches

Spec == Init /\ [][Next]_vars


\* every parent that is in the window comes later in the list than all of
\* its children (newest first)
ChildrenFirst(raw) ==
    \A i, j \in 1..Len(raw) : Includes(raw[i].parents, raw[j].sha) => i < j

\* the layout of well-formed windows: unique shas, children before parents
OrderedInit == Init /\ UniqueShas(rawCommits) /\ ChildrenFirst(rawCommits)

OrderedSpec == OrderedInit /\ [][Next]_vars

\* windows in which commits may lack the parents list, with at most one ref
LooseInit ==
    /\ rawCommits \in LooseLists(MaxRefCommits)
    /\ branches \in SeqsUpTo(Refs(MaxRefCommits), 1)
    /\ pc = "start"
    /\ Idle
    /\ branchName = <<>> /\ hash = Num(0, 0) /\ charIdx = 0 /\ color = "none"

LooseSpec == LooseInit /\ [][Next]_vars

\* ------------------------------------------------ repeated layouts
\* windows laid out between two layouts of one input; the second and the
\* third leave a lane active at their end
OtherWindows ==
    { <<[sha |-> 1, parents |-> <<2>>], [sha |-> 2, parents |-> <<>>]>>,
      <<[sha |-> 1, parents |-> <<2, 3>>], [sha |-> 2, parents |-> <<>>],
        [sha |-> 3, parents |-> <<>>]>>,
      <<[sha |-> 1, parents |-> <<2>>], [sha |-> 2, parents |-> <<>>],
        [sha |-> 2, parents |-> <<>>]>> }

Call(raw, refs, nodes) == [rawCommits |-> raw, branches |-> refs, commits |-> nodes]

\* the inputs of the calls made so far, the running one included
InputsSoFar ==
    {<<rawCommits, branches>>}
    \cup {<<history[k].rawCommits, history[k].branches>> : k \in 1..Len(history)}

RepeatInit ==
    /\ rawCommits \in CommitLists(MaxRepeatCommits)
    /\ branches \in SeqsUpTo(Refs(1), 1)
    /\ pc = "start"
    /\ Idle
    /\ branchName = <<>> /\ hash = Num(0, 0) /\ charIdx = 0 /\ color = "none"

\* lines 38-58: loadData calls processCommitsForGraph again, on an input
\* laid out before or on another one; the locals of the finished call stay
\* behind until the new call replaces them
Reload ==
    /\ pc = "done"
    /\ Len(history) < MaxCalls - 1
    /\ history' = Append(history, Call(rawCommits, branches, commits))
    /\ \E in \in InputsSoFar \cup {<<w, <<>>>> : w \in OtherWindows} :
           /\ rawCommits' = in[1]
           /\ branches' = in[2]
    /\ pc' = "start"
    /\ UNCHANGED <<commitMap, childCount, commitToLane, activeLanes, idx, taken,
                   commits, lanes, colorVars, restVars>>

RepeatNext == Begin \/ LaneStep \/ AssignBranches \/ Reload

RepeatSpec == RepeatInit /\ [][RepeatNext]_vars

\* ------------------------------------ the simpler processCommitsForGraph
\* faulty variant: a commit found on every lane opens a new lane
RECURSIVE FindLane_NewWhenFull(_, _, _)
FindLane_NewWhenFull(ls, sha, i) ==
    IF i >= Len(ls) THEN Len(ls)
    ELSE IF ~Includes(ls[i + 1], sha) THEN i
         ELSE FindLane_NewWhenFull(ls, sha, i + 1)

\* let lane = 0; for (i < lanes.length) if (!lanes[i].includes(sha))
\* { lane = i; break }
RECURSIVE FindLane(_, _, _)
FindLane(ls, sha, i) ==
    IF i >= Len(ls) THEN 0
    ELSE IF ~Includes(ls[i + 1], sha) THEN i
         ELSE FindLane(ls, sha, i + 1)

\* if (lane === lanes.length) lanes.push([]); lanes[lane].push(commit.sha)
PushSha(ls, lane, sha) ==
    LET grown == IF lane = Len(ls) THEN Append(ls, <<>>) ELSE ls
    IN  [grown EXCEPT ![lane + 1] = Append(@, sha)]

\* { ...commit, x: lane * 40, y: index * 80, lane, branches: [] }
SimpleNode(commit, index, lane) ==
    commit @@ [x |-> lane * LaneWidth, y |-> index * RowHeight, lane |-> lane,
               branches |-> <<>>]

\* parents are not read by this variant: windows with parents up to
\* MaxRefCommits, windows of parentless commits up to MaxCommits
SimpleInit ==
    /\ rawCommits \in CommitLists(MaxRefCommits)
                      \cup {MkCommits(s, [x \in Range(s) |-> <<>>]) :
                               s \in ShaSeqs(MaxCommits)}
    /\ branches \in SeqsUpTo(Refs(MaxRefCommits), 1)
    /\ pc = "simple"
    /\ Idle
    /\ branchName = <<>> /\ hash = Num(0, 0) /\ charIdx = 0 /\ color = "none"

\* one iteration of rawCommits.forEach
SimpleStep ==
    /\ pc = "simple"
    /\ idx < Len(rawCommits)
    /\ LET commit == rawCommits[idx + 1]
           lane   == FindLane(lanes, commit.sha, 0)
       IN  /\ lanes' = PushSha(lanes, lane, commit.sha)
           /\ commitMap' = MapSet(commitMap, SimpleNode(commit, idx, lane))
    /\ idx' = idx + 1
    /\ UNCHANGED <<rawCommits, branches, pc, childCount, commitToLane,
                   activeLanes, taken, commits, history, colorVars, restVars>>

\* ref labels, return of the Map's values, setCommits
SimpleAssignBranches ==
    /\ pc = "simple"
    /\ idx = Len(rawCommits)
    /\ commitMap' = AttachBranches(commitMap, branches, 1)
    /\ commits' = commitMap'
    /\ pc' = "done"
    /\ UNCHANGED <<rawCommits, branches, childCount, commitToLane, activeLanes,
                   idx, taken, history, lanes, colorVars, restVars>>

SimpleNext == SimpleStep \/ SimpleAssignBranches

SimpleSpec == SimpleInit /\ [][SimpleNext]_vars

\* ------------------------------------------------- loadData of the view
\* lines 98-155 as one computation: the loop over `reversed` from entry k on
RECURSIVE LaneLoop(_, _, _, _, _)
LaneLoop(raw, k, m, c2l, active) ==
    IF k >= Len(raw) THEN m
    ELSE LET commit == Reverse(raw)[k + 1]
             lane   == PickLane(raw, c2l, active, commit)
             n      == (commit.sha :> lane) @@ c2l
         IN  LaneLoop(raw, k + 1, SetLane(m, commit.sha, lane), n,
                      IF AllChildrenDone(raw, n, commit.sha)
                      THEN active \ {lane} ELSE active \cup {lane})

\* lines 66-166 as one computation; refs is the `branches` of the closure
processCommitsForGraph(raw, refs) ==
    IF Len(raw) = 0 THEN <<>>
    ELSE AttachBranches(LaneLoop(raw, 0, InitNodes(raw, 1, <<>>), <<>>, {}),
                        refs, 1)

\* the selection 'all', as character codes like the branch names
AllBranches == <<97, 108, 108>>

\* a repository: its refs and its commits (a window of unique shas,
\* children first)
Repos ==
    {[refs |-> r, all |-> w] :
        r \in SeqsUpTo(Refs(MaxRefCommits), 1) \ {<<>>},
        w \in {v \in CommitLists(MaxRefCommits) :
                  Len(v) > 0 /\ UniqueShas(v) /\ ChildrenFirst(v)}}

\* the commits of the window from the one with this sha on
RECURSIVE From(_, _)
From(w, sha) ==
    IF w = <<>> THEN <<>>
    ELSE IF w[1].sha = sha THEN w ELSE From(Tail(w), sha)

\* window.api.git.getCommits(repository.path, commitOptions).data: all
\* commits, or those of the branch with that name
CommitsFor(sel) ==
    IF sel = AllBranches THEN repo.all
    ELSE LET k == CHOOSE k \in 1..Len(repo.refs) : repo.refs[k].name = sel
         IN  From(repo.all, repo.refs[k].sha)

LoadInit ==
    /\ repo \in Repos
    /\ selectedBranch = AllBranches
    /\ loading = FALSE
    /\ loads = <<>>
    /\ UiIdle
    /\ scripts = <<>> /\ executionHistory = <<>> /\ runs = <<>> /\ now = 0
    /\ request = [handler |-> "none", id |-> 0] /\ reply = Failure("none", 0)
    /\ rawCommits = <<>> /\ branches = <<>>
    /\ pc = "view"
    /\ commitMap = <<>> /\ childCount = <<>> /\ commitToLane = <<>>
    /\ activeLanes = {} /\ idx = 0 /\ taken = "none" /\ commits = <<>>
    /\ history = <<>> /\ lanes = <<>>
    /\ branchName = <<>> /\ hash = Num(0, 0) /\ charIdx = 0 /\ color = "none"

\* a call of loadData: the selection and the branches of the render that
\* made it, where it waits, and which of its two requests succeeded
NewLoad(sel, refs) ==
    [sel |-> sel, refs |-> refs, at |-> "getBranches", gotRefs |-> FALSE,
     gotCommits |-> FALSE]

\* lines 34-41: the effect runs loadData when the view is mounted
MountEffect ==
    /\ pc = "view"
    /\ loads = <<>>
    /\ loads' = <<NewLoad(selectedBranch, branches)>>
    /\ loading' = TRUE
    /\ UNCHANGED <<repo, selectedBranch, branches, commits, pc, layoutLocals,
                   colorVars, autoVars,
                   uiVars>>

\* lines 240-258, 34-41: a button of the dropdown ('all' or a branch of the
\* list) sets selectedBranch, then the effect of the new render runs its
\* loadData
SelectBranch ==
    /\ pc = "view"
    /\ loads # <<>> /\ Len(loads) < MaxLoads
    /\ \E b \in {AllBranches} \cup {branches[k].name : k \in 1..Len(branches)} :
           /\ b # selectedBranch
           /\ selectedBranch' = b
           /\ loads' = Append(loads, NewLoad(b, branches))
    /\ loading' = TRUE
    /\ UNCHANGED <<repo, branches, commits, pc, layoutLocals, colorVars,
                   autoVars, uiVars>>

\* lines 295-297: the refresh button, disabled while loading, calls
\* loadData of the current render
Refresh ==
    /\ pc = "view"
    /\ loads # <<>> /\ Len(loads) < MaxLoads
    /\ ~loading
    /\ loads' = Append(loads, NewLoad(selectedBranch, branches))
    /\ loading' = TRUE
    /\ UNCHANGED <<repo, selectedBranch, branches, commits, pc, layoutLocals,
                   colorVars, autoVars,
                   uiVars>>

\* lines 44-47: the answer of getBranches arrives
BranchesArrive ==
    /\ pc = "view"
    /\ \E i \in 1..Len(loads), success \in BOOLEAN :
           /\ loads[i].at = "getBranches"
           /\ branches' = IF success THEN repo.refs ELSE branches
           /\ loads' = [loads EXCEPT ![i].at = "getCommits",
                                     ![i].gotRefs = success]
    /\ UNCHANGED <<repo, selectedBranch, loading, commits, pc, layoutLocals,
                   colorVars, autoVars,
                   uiVars>>

\* lines 49-62: the answer of getCommits arrives (or the call throws), and
\* the call ends with setLoading(false)
CommitsArrive ==
    /\ pc = "view"
    /\ \E i \in 1..Len(loads), success \in BOOLEAN :
           /\ loads[i].at = "getCommits"
           /\ commits' = IF success
                         THEN processCommitsForGraph(CommitsFor(loads[i].sel),
                                                     loads[i].refs)
                         ELSE commits
           /\ loads' = [loads EXCEPT ![i].at = "done",
                                     ![i].gotCommits = success]
    /\ loading' = FALSE
    /\ UNCHANGED <<repo, selectedBranch, branches, pc, layoutLocals, colorVars,
                   autoVars, uiVars>>

LoadNext ==
    MountEffect \/ SelectBranch \/ Refresh \/ BranchesArrive \/ CommitsArrive

LoadSpec == LoadInit /\ [][LoadNext]_vars

\* ------------------------------------------------- AutomationExecutor
\* step types: one that calls git (and succeeds or throws) and one that
\* the switch does not know
StepTypes == {"pull", "other"}

\* the scripts' step lists: step number k has id k
StepLists(n) ==
    UNION {[1..k -> [type : StepTypes, continueOnError : BOOLEAN]] : k \in 0..n}

StepAt(steps, k) ==
    [id |-> k, type |-> steps[k].type, continueOnError |-> steps[k].continueOnError]

\* lines 23-33: this.execution and the two flags at the start
NewExecution(script, t) ==
    [id |-> t, scriptId |-> script.id, startTime |-> t, status |-> "running",
     stepResults |-> <<>>, endTime |-> 0,
     next |-> 1, broke |-> FALSE, hasFailures |-> FALSE, hasSuccesses |-> FALSE]

\* lines 66-122: the result of a step; git tells whether a known step works
StepResult(step, gitOk) ==
    [stepId |-> step.id,
     status |-> IF step.type # "other" /\ gitOk THEN "success" ELSE "failed"]

\* faulty variant: every failed step ends the run
Breaks_OnAnyFailure(step, result) == result.status = "failed"

\* lines 39-44: break after a failed step unless continueOnError
Breaks(step, result) == result.status = "failed" /\ ~step.continueOnError

\* lines 36-47: one iteration of the loop over script.steps
AfterStep(e, step, result) ==
    [e EXCEPT !.stepResults = Append(@, result),
              !.next = @ + 1,
              !.broke = Breaks(step, result),
              !.hasFailures = @ \/ result.status = "failed",
              !.hasSuccesses = @ \/ (result.status # "failed"
                                      /\ result.status = "success")]

\* faulty variant: a run with failures is 'failed' whatever succeeded
FinalStatus_NoPartial(hasFailures, hasSuccesses) ==
    IF ~hasFailures THEN "success" ELSE "failed"

\* lines 52-58
FinalStatus(hasFailures, hasSuccesses) ==
    IF ~hasFailures THEN "success"
    ELSE IF hasSuccesses THEN "partial" ELSE "failed"

\* lines 50-60: end time and final status
Returned(e, t) ==
    [e EXCEPT !.endTime = t, !.status = FinalStatus(e.hasFailures, e.hasSuccesses)]

LoopEnded(script, e) == e.broke \/ e.next > Len(script.steps)

\* a call of the execute handler: the list it read, the script it found,
\* the executor's execution, and where the call is
NewRun(all, script, t) ==
    [allScripts |-> all, script |-> script, execution |-> NewExecution(script, t),
     at |-> "loop", reply |-> "none"]

\* a script; rev stands for its name and description, 0 for no time
Script(id, steps, enabled, rev) ==
    [id |-> id, steps |-> steps, enabled |-> enabled, rev |-> rev,
     createdAt |-> 0, lastRun |-> 0]

\* executeScript alone, called with any script
RunInit ==
    /\ now = 1
    /\ \E steps \in StepLists(MaxSteps), en \in BOOLEAN :
           runs = <<NewRun(<<>>, Script(1, steps, en, 0), now)>>
    /\ scripts = <<>> /\ executionHistory = <<>> /\ reply = Failure("none", 0)
    /\ request = [handler |-> "none", id |-> 0]
    /\ repo = <<>> /\ selectedBranch = <<>> /\ loading = FALSE /\ loads = <<>>
    /\ UiIdle
    /\ rawCommits = <<>> /\ branches = <<>>
    /\ pc = "run"
    /\ commitMap = <<>> /\ childCount = <<>> /\ commitToLane = <<>>
    /\ activeLanes = {} /\ idx = 0 /\ taken = "none" /\ commits = <<>>
    /\ history = <<>> /\ lanes = <<>>
    /\ branchName = <<>> /\ hash = Num(0, 0) /\ charIdx = 0 /\ color = "none"

\* lines 35-48: a step is executed and its result recorded
ExecuteStep ==
    /\ pc \in {"run", "auto"}
    /\ \E i \in 1..Len(runs), gitOk \in BOOLEAN :
           LET r == runs[i]
               e == r.execution
           IN  /\ r.at = "loop"
               /\ ~LoopEnded(r.script, e)
               /\ LET step == StepAt(r.script.steps, e.next)
                  IN  runs' = [runs EXCEPT ![i].execution =
                                   AfterStep(e, step, StepResult(step, gitOk))]
               /\ request' = [handler |-> "step", id |-> r.script.id]
    /\ now' = now + 1
    /\ UNCHANGED <<scripts, executionHistory, reply, pc, branches, commits,
                   loadVars, layoutLocals, colorVars, uiVars>>

\* lines 50-60: executeScript returns its execution
ExecuteReturn ==
    /\ pc = "run"
    /\ \E i \in 1..Len(runs) :
           /\ runs[i].at = "loop"
           /\ LoopEnded(runs[i].script, runs[i].execution)
           /\ runs' = [runs EXCEPT ![i].execution = Returned(@, now),
                                   ![i].at = "returned"]
           /\ request' = [handler |-> "return", id |-> runs[i].script.id]
    /\ now' = now + 1
    /\ UNCHANGED <<scripts, executionHistory, reply, pc, branches, commits,
                   loadVars, layoutLocals, colorVars, uiVars>>

RunNext == ExecuteStep \/ ExecuteReturn

RunSpec == RunInit /\ [][RunNext]_vars

\* ------------------------------------------------- automation handlers
\* everything but the automation handlers' state
notAuto == <<pc, branches, commits, loadVars, layoutLocals, colorVars, uiVars>>

\* what the renderer may send: where only the history is looked at, one
\* script without steps; else scripts of no step or one git step
ScriptInputs ==
    IF pc = "history" THEN {Script(1, <<>>, TRUE, 0)}
    ELSE {Script(id, steps, en, rev) :
             id \in 1..MaxScripts,
             steps \in {<<>>, <<[type |-> "pull", continueOnError |-> FALSE]>>},
             en \in BOOLEAN, rev \in 0..1}

Capacity == IF pc = "history" THEN 1 ELSE MaxScripts

Horizon == IF pc = "history" THEN MaxExecutions ELSE MaxTime

\* allScripts.findIndex(s => s.id === id), 0 for -1
FirstIndex(all, id) ==
    LET S == {k \in 1..Len(all) : all[k].id = id}
    IN  IF S = {} THEN 0 ELSE Min(S)

\* allScripts.filter(s => s.id !== id)
RECURSIVE Without(_, _)
Without(all, id) ==
    IF all = <<>> THEN <<>>
    ELSE IF all[1].id = id THEN Without(Tail(all), id)
         ELSE <<all[1]>> \o Without(Tail(all), id)

\* lines 128-134: script.lastRun = now in the list read at the start
WithLastRun(all, id, t) ==
    [k \in 1..Len(all) |->
        IF k = FirstIndex(all, id) THEN [all[k] EXCEPT !.lastRun = t] ELSE all[k]]

\* faulty variant: the history is cut to its first entries
Recorded_KeepOldest(hist, id, e) ==
    LET h  == IF id \in DOMAIN hist THEN hist[id] ELSE <<>>
        h1 == Append(h, e)
    IN  (id :> IF Len(h1) > HistoryLimit THEN SubSeq(h1, 1, HistoryLimit) ELSE h1)
        @@ hist

\* lines 136-143: push, shift when longer than 20, set
Recorded(hist, id, e) ==
    LET h  == IF id \in DOMAIN hist THEN hist[id] ELSE <<>>
        h1 == Append(h, e)
    IN  (id :> IF Len(h1) > HistoryLimit THEN Tail(h1) ELSE h1) @@ hist

\* lines 34-59
CreateScript ==
    /\ pc \in {"auto", "history"}
    /\ now < Horizon
    /\ Len(scripts) < Capacity
    /\ \E script \in ScriptInputs :
           /\ scripts' = Append(scripts, [script EXCEPT !.createdAt = now])
           /\ request' = [handler |-> "create", id |-> script.id]
           /\ reply' = Success("create", script.id)
    /\ now' = now + 1
    /\ UNCHANGED <<executionHistory, runs, notAuto>>

\* lines 62-84
UpdateScript ==
    /\ pc = "auto"
    /\ \E updatedScript \in ScriptInputs :
           LET index == FirstIndex(scripts, updatedScript.id)
           IN  /\ request' = [handler |-> "update", id |-> updatedScript.id]
               /\ IF index = 0
                  THEN /\ reply' = Failure("update", updatedScript.id)
                       /\ UNCHANGED scripts
                  ELSE /\ scripts' = [scripts EXCEPT ![index] = updatedScript]
                       /\ reply' = Success("update", updatedScript.id)
    /\ UNCHANGED <<executionHistory, runs, now, notAuto>>

\* lines 87-106
DeleteScript ==
    /\ pc \in {"auto", "history"}
    /\ \E scriptId \in 1..Capacity :
           /\ scripts' = Without(scripts, scriptId)
           /\ executionHistory' =
                  [k \in DOMAIN executionHistory \ {scriptId} |-> executionHistory[k]]
           /\ request' = [handler |-> "delete", id |-> scriptId]
           /\ reply' = Success("delete", scriptId)
    /\ UNCHANGED <<runs, now, notAuto>>

\* faulty variant: a disabled script is run like an enabled one
Runnable_IgnoreEnabled(all, k) == k # 0

\* lines 116-122: the script was found and is enabled
Runnable(all, k) == k # 0 /\ all[k].enabled

\* lines 109-126, and lines 128-145 when the script has no step to wait
\* for: the handler reads the list, looks the script up and runs it
ExecuteScript ==
    /\ pc \in {"auto", "history"}
    /\ now < Horizon
    /\ \E scriptId \in 1..Capacity :
           LET allScripts == scripts
               k          == FirstIndex(allScripts, scriptId)
           IN  /\ request' = [handler |-> "execute", id |-> scriptId]
               /\ IF ~Runnable(allScripts, k)
                  THEN /\ reply' = Failure("execute", scriptId)
                       /\ UNCHANGED <<scripts, executionHistory, runs, now>>
                  ELSE IF allScripts[k].steps = <<>>
                  THEN LET e == Returned(NewExecution(allScripts[k], now), now)
                       IN  /\ scripts' = WithLastRun(allScripts, scriptId, now)
                           /\ executionHistory' =
                                  Recorded(executionHistory, scriptId, e)
                           /\ reply' = Success("execute", scriptId)
                           /\ now' = now + 1
                           /\ UNCHANGED runs
                  ELSE /\ runs' = Append(runs, NewRun(allScripts, allScripts[k], now))
                       /\ now' = now + 1
                       /\ UNCHANGED <<scripts, executionHistory, reply>>
    /\ UNCHANGED notAuto

\* lines 126-145: executeScript returns, the handler writes lastRun and
\* the history and replies
ExecuteEnd ==
    /\ pc = "auto"
    /\ \E i \in 1..Len(runs) :
           LET r  == runs[i]
               id == r.script.id
               e  == Returned(r.execution, now)
           IN  /\ r.at = "loop"
               /\ LoopEnded(r.script, r.execution)
               /\ scripts' = WithLastRun(r.allScripts, id, now)
               /\ executionHistory' = Recorded(executionHistory, id, e)
               /\ request' = [handler |-> "end", id |-> id]
               /\ reply' = Success("execute", id)
               /\ runs' = SubSeq(runs, 1, i - 1) \o SubSeq(runs, i + 1, Len(runs))
    /\ now' = now + 1
    /\ UNCHANGED notAuto

AutoInit ==
    /\ scripts \in {<<>>} \cup {<<s>> : s \in {Script(1, steps, en, 0) :
                                     steps \in {<<>>, <<[type |-> "pull",
                                                        continueOnError |-> FALSE]>>},
                                     en \in BOOLEAN}}
    /\ executionHistory = <<>> /\ runs = <<>> /\ reply = Failure("none", 0) /\ now = 1
    /\ request = [handler |-> "none", id |-> 0]
    /\ repo = <<>> /\ selectedBranch = <<>> /\ loading = FALSE /\ loads = <<>>
    /\ UiIdle
    /\ rawCommits = <<>> /\ branches = <<>>
    /\ pc = "auto"
    /\ commitMap = <<>> /\ childCount = <<>> /\ commitToLane = <<>>
    /\ activeLanes = {} /\ idx = 0 /\ taken = "none" /\ commits = <<>>
    /\ history = <<>> /\ lanes = <<>>
    /\ branchName = <<>> /\ hash = Num(0, 0) /\ charIdx = 0 /\ color = "none"

AutoNext ==
    \/ CreateScript \/ UpdateScript \/ DeleteScript
    \/ ExecuteScript \/ ExecuteStep \/ ExecuteEnd

AutoSpec == AutoInit /\ [][AutoNext]_vars

\* one script without steps, executed again and again: the history of
\* lines 136-143 past its limit
HistoryInit ==
    /\ scripts = <<Script(1, <<>>, TRUE, 0)>>
    /\ executionHistory = <<>> /\ runs = <<>> /\ reply = Failure("none", 0) /\ now = 1
    /\ request = [handler |-> "none", id |-> 0]
    /\ repo = <<>> /\ selectedBranch = <<>> /\ loading = FALSE /\ loads = <<>>
    /\ UiIdle
    /\ rawCommits = <<>> /\ branches = <<>>
    /\ pc = "history"
    /\ commitMap = <<>> /\ childCount = <<>> /\ commitToLane = <<>>
    /\ activeLanes = {} /\ idx = 0 /\ taken = "none" /\ commits = <<>>
    /\ history = <<>> /\ lanes = <<>>
    /\ branchName = <<>> /\ hash = Num(0, 0) /\ charIdx = 0 /\ color = "none"

HistoryNext == CreateScript \/ DeleteScript \/ ExecuteScript

HistorySpec == HistoryInit /\ [][HistoryNext]_vars

\* --------------------------------------------- useAutomationStore
\* the rest of the application while a store or the monitor is modelled
notUi == <<pc, branches, commits, loadVars, layoutLocals, colorVars, autoVars>>

\* what getScripts can answer: lists of scripts with distinct ids
ScriptLists ==
    {w \in SeqsUpTo([id : 1..MaxScripts, enabled : BOOLEAN], MaxScripts) :
        \A i, j \in 1..Len(w) : w[i].id = w[j].id => i = j}

\* how a call to the main process settles
Outcomes == {"success", "failure", "throw"}

StoreCall(op, id, at) == [op |-> op, id |-> id, at |-> at, result |-> "none"]

\* line 125: get().scripts.find(s => s.id === scriptId)
Found(list, id) == \E k \in 1..Len(list) : list[k].id = id

\* faulty variant: a thrown call leaves the function without the reset
ExecutingAfterSettle_StuckOnThrow(result, found) ==
    result = "throw" \/ (result = "success" /\ found)

\* lines 121-138: isExecuting once the continuation of the call has run:
\* still true only where the function awaits loadScripts (line 127), which
\* comes before its finally
ExecutingAfterSettle(result, found) == result = "success" /\ found

StoreInit ==
    /\ pc = "store"
    /\ UiIdle
    /\ repo = <<>> /\ selectedBranch = <<>> /\ loading = FALSE /\ loads = <<>>
    /\ scripts = <<>> /\ executionHistory = <<>> /\ runs = <<>> /\ now = 0
    /\ request = [handler |-> "none", id |-> 0] /\ reply = Failure("none", 0)
    /\ rawCommits = <<>> /\ branches = <<>>
    /\ commitMap = <<>> /\ childCount = <<>> /\ commitToLane = <<>>
    /\ activeLanes = {} /\ idx = 0 /\ taken = "none" /\ commits = <<>>
    /\ history = <<>> /\ lanes = <<>>
    /\ branchName = <<>> /\ hash = Num(0, 0) /\ charIdx = 0 /\ color = "none"

\* the Automation view's effect calls loadScripts: lines 57-60
LoadScripts ==
    /\ pc = "store"
    /\ Len(calls) < MaxStoreCalls
    /\ isLoading' = TRUE
    /\ calls' = Append(calls, StoreCall("load", 0, "getScripts"))
    /\ UNCHANGED <<isExecuting, currentExecution, storeScripts, repoVars,
                   netVars, notUi>>

\* lines 60-68: getScripts settles, for the view's call or for the reload
\* of executeScript, which then returns through its finally (line 137)
GetScriptsSettle ==
    /\ pc = "store"
    /\ \E i \in 1..Len(calls), result \in Outcomes, data \in ScriptLists :
           /\ calls[i].at \in {"getScripts", "reload"}
           /\ storeScripts' = IF result = "success" THEN data ELSE storeScripts
           /\ isLoading' = FALSE
           /\ isExecuting' = IF calls[i].at = "reload" THEN FALSE ELSE isExecuting
           /\ calls' = [calls EXCEPT ![i].at = "done"]
    /\ UNCHANGED <<currentExecution, repoVars, netVars, notUi>>

\* the Run button of a listed script (enabled, and disabled while
\* isExecuting) calls executeScript: lines 117-120
StartExecute ==
    /\ pc = "store"
    /\ Len(calls) < MaxStoreCalls
    /\ ~isExecuting
    /\ \E k \in 1..Len(storeScripts) :
           /\ storeScripts[k].enabled
           /\ calls' = Append(calls, StoreCall("execute", storeScripts[k].id,
                                               "executeScript"))
    /\ isExecuting' = TRUE
    /\ currentExecution' = <<>>
    /\ UNCHANGED <<isLoading, storeScripts, repoVars, netVars, notUi>>

\* lines 120-138: the call to the main process settles; the data of a
\* successful result is named by the number of the call
ExecuteSettle ==
    /\ pc = "store"
    /\ \E i \in 1..Len(calls), result \in Outcomes :
           LET found  == Found(storeScripts, calls[i].id)
               reload == result = "success" /\ found
           IN  /\ calls[i].at = "executeScript"
               /\ currentExecution' =
                      IF result = "success" THEN <<i>> ELSE currentExecution
               /\ isLoading' = IF reload THEN TRUE ELSE isLoading
               /\ isExecuting' = ExecutingAfterSettle(result, found)
               /\ calls' = [calls EXCEPT
                               ![i].at = IF reload THEN "reload" ELSE "done",
                               ![i].result = result]
    /\ UNCHANGED <<storeScripts, repoVars, netVars, notUi>>

\* the execution modal, shown while currentExecution is set, is closed
CloseExecutionModal ==
    /\ pc = "store"
    /\ currentExecution # <<>>
    /\ currentExecution' = <<>>
    /\ UNCHANGED <<isExecuting, isLoading, storeScripts, calls, repoVars,
                   netVars, notUi>>

StoreNext ==
    \/ LoadScripts \/ GetScriptsSettle \/ StartExecute \/ ExecuteSettle
    \/ CloseExecutionModal

StoreSpec == StoreInit /\ [][StoreNext]_vars

\* --------------------------------------------- useRepositoryStore
\* a Repository: its id, and rev for the rest of its fields
Repositories == [id : 1..MaxRepos, rev : 0..1]

\* lists of repositories with distinct ids, as the main process keeps them
RepoLists ==
    {w \in SeqsUpTo(Repositories, MaxRepos) :
        \A i, j \in 1..Len(w) : w[i].id = w[j].id => i = j}

\* state.repositories.filter((r) => r.id !== repoId)
RECURSIVE WithoutRepo(_, _)
WithoutRepo(list, repoId) ==
    IF list = <<>> THEN <<>>
    ELSE IF Head(list).id = repoId THEN WithoutRepo(Tail(list), repoId)
    ELSE <<Head(list)>> \o WithoutRepo(Tail(list), repoId)

\* state.repositories.find((r) => r.id === repoId) || null
FindRepo(list, repoId) ==
    IF \E k \in 1..Len(list) : list[k].id = repoId
    THEN <<list[CHOOSE k \in 1..Len(list) :
                   /\ list[k].id = repoId
                   /\ \A j \in 1..(k - 1) : list[j].id # repoId]>>
    ELSE <<>>

\* state.selectedRepo?.id === repoId
SelectedIs(repoId) == selectedRepo # <<>> /\ selectedRepo[1].id = repoId

RepoInit ==
    /\ pc = "repos"
    /\ UiIdle
    /\ repo = <<>> /\ selectedBranch = <<>> /\ loading = FALSE /\ loads = <<>>
    /\ scripts = <<>> /\ executionHistory = <<>> /\ runs = <<>> /\ now = 0
    /\ request = [handler |-> "none", id |-> 0] /\ reply = Failure("none", 0)
    /\ rawCommits = <<>> /\ branches = <<>>
    /\ commitMap = <<>> /\ childCount = <<>> /\ commitToLane = <<>>
    /\ activeLanes = {} /\ idx = 0 /\ taken = "none" /\ commits = <<>>
    /\ history = <<>> /\ lanes = <<>>
    /\ branchName = <<>> /\ hash = Num(0, 0) /\ charIdx = 0 /\ color = "none"

\* line 54
SetRepositories ==
    /\ pc = "repos"
    /\ \E repos \in RepoLists : repositories' = repos
    /\ UNCHANGED <<selectedRepo, storeVars, netVars, notUi>>

\* lines 56-59
AddRepository ==
    /\ pc = "repos"
    /\ Len(repositories) < MaxRepos
    /\ \E r \in Repositories :
           /\ ~\E k \in 1..Len(repositories) : repositories[k].id = r.id
           /\ repositories' = Append(repositories, r)
    /\ UNCHANGED <<selectedRepo, storeVars, netVars, notUi>>

\* lines 61-65
RemoveRepository ==
    /\ pc = "repos"
    /\ \E repoId \in 1..MaxRepos :
           /\ repositories' = WithoutRepo(repositories, repoId)
           /\ selectedRepo' = IF SelectedIs(repoId) THEN <<>> ELSE selectedRepo
    /\ UNCHANGED <<storeVars, netVars, notUi>>

\* lines 67-71
UpdateRepository ==
    /\ pc = "repos"
    /\ \E r \in Repositories :
           /\ repositories' = [k \in 1..Len(repositories) |->
                                  IF repositories[k].id = r.id THEN r
                                  ELSE repositories[k]]
           /\ selectedRepo' = IF SelectedIs(r.id) THEN <<r>> ELSE selectedRepo
    /\ UNCHANGED <<storeVars, netVars, notUi>>

\* lines 73-78; repoId 0 is the call with null
SelectRepository ==
    /\ pc = "repos"
    /\ \E repoId \in 0..MaxRepos :
           selectedRepo' = IF repoId # 0 THEN FindRepo(repositories, repoId)
                           ELSE <<>>
    /\ UNCHANGED <<repositories, storeVars, netVars, notUi>>

RepoNext ==
    \/ SetRepositories \/ AddRepository \/ RemoveRepository
    \/ UpdateRepository \/ SelectRepository

RepoSpec == RepoInit /\ [][RepoNext]_vars

\* ------------------------------------------------ network monitor
\* faulty variant: every response is notified
ResponseNotifies_Always(online) == TRUE

\* line 13: if (!isOnline)
ResponseNotifies(online) == ~online

\* line 19: if (isOnline)
ErrorNotifies(online) == online

\* lines 31-41: notifyStatusChange sends the current isOnline
Notified(sent, online) == Append(sent, online)

NetInit ==
    /\ pc = "network"
    /\ UiIdle
    /\ repo = <<>> /\ selectedBranch = <<>> /\ loading = FALSE /\ loads = <<>>
    /\ scripts = <<>> /\ executionHistory = <<>> /\ runs = <<>> /\ now = 0
    /\ request = [handler |-> "none", id |-> 0] /\ reply = Failure("none", 0)
    /\ rawCommits = <<>> /\ branches = <<>>
    /\ commitMap = <<>> /\ childCount = <<>> /\ commitToLane = <<>>
    /\ activeLanes = {} /\ idx = 0 /\ taken = "none" /\ commits = <<>>
    /\ history = <<>> /\ lanes = <<>>
    /\ branchName = <<>> /\ hash = Num(0, 0) /\ charIdx = 0 /\ color = "none"

notNet == <<pc, branches, commits, loadVars, layoutLocals, colorVars, scripts,
            executionHistory, runs, reply, now, storeVars, repoVars>>

\* lines 45-47 and 10-25: the timer fires and checkConnection sends a
\* request; earlier requests may still be unanswered
CheckConnection ==
    /\ pc = "network"
    /\ Len(checks) < MaxChecks
    /\ checks' = Append(checks, "sent")
    /\ request' = [handler |-> "check", id |-> Len(checks) + 1]
    /\ UNCHANGED <<isOnline, broadcasts, checkStatus, notNet>>

\* lines 12-17: the 'response' callback of a request
OnResponse ==
    /\ pc = "network"
    /\ \E i \in 1..Len(checks) :
           /\ checks[i] = "sent"
           /\ checks' = [checks EXCEPT ![i] = "responded"]
           /\ request' = [handler |-> "response", id |-> i]
    /\ isOnline' = TRUE
    /\ broadcasts' = IF ResponseNotifies(isOnline) THEN Notified(broadcasts, TRUE)
                     ELSE broadcasts
    /\ UNCHANGED <<checkStatus, notNet>>

\* lines 18-23: the 'error' callback of a request, before a response or
\* after one
OnError ==
    /\ pc = "network"
    /\ \E i \in 1..Len(checks) :
           /\ checks[i] \in {"sent", "responded"}
           /\ checks' = [checks EXCEPT ![i] = "failed"]
           /\ request' = [handler |-> "error", id |-> i]
    /\ isOnline' = FALSE
    /\ broadcasts' = IF ErrorNotifies(isOnline) THEN Notified(broadcasts, FALSE)
                     ELSE broadcasts
    /\ UNCHANGED <<checkStatus, notNet>>

\* lines 49-57: the check-status handler
CheckStatus ==
    /\ pc = "network"
    /\ checkStatus' = <<isOnline>>
    /\ request' = [handler |-> "checkStatus", id |-> Len(broadcasts)]
    /\ UNCHANGED <<isOnline, checks, broadcasts, notNet>>

NetNext == CheckConnection \/ OnResponse \/ OnError \/ CheckStatus

NetSpec == NetInit /\ [][NetNext]_vars

\* ------------------------------------------------- getBranchColor, alone
ColorInit ==
    /\ branchName \in SeqsUpTo(Chars, MaxNameLen)
    /\ hash = Num(0, 0) /\ charIdx = 0
    /\ color = "none"
    /\ pc = "color"
    /\ rawCommits = <<>> /\ branches = <<>>
    /\ Idle

\* lines 204-206: one iteration of the loop over the characters
HashLoopStep ==
    /\ pc = "color"
    /\ charIdx < Len(branchName)
    /\ hash' = HashStep(hash, branchName[charIdx + 1])
    /\ charIdx' = charIdx + 1
    /\ UNCHANGED <<pc, branchName, color, layoutVars, restVars>>

\* lines 208-217: the palette entry is returned
ReturnColor ==
    /\ pc = "color"
    /\ charIdx = Len(branchName)
    /\ color' = ColorAt(PaletteIndex(hash))
    /\ pc' = "colored"
    /\ UNCHANGED <<branchName, hash, charIdx, layoutVars, restVars>>

ColorNext == HashLoopStep \/ ReturnColor

ColorSpec == ColorInit /\ [][ColorNext]_vars


\* ------------------------------------------------------------ vocabulary
Done == pc = "done"

\* every referenced parent is a commit of the window
SelfContained(raw) ==
    \A i \in 1..Len(raw) : Range(raw[i].parents) \subseteq ShaSet(raw)

\* the node of the layout that carries sha
NodeOf(sha) == commits[FindCommit(commits, sha)]

IsChildOf(c, a) == Includes(c.parents, a.sha)

\* C1: whenever a commit A of the window has two children B and C in the
\* window, B and C are on two distinct lanes and exactly one of them is on
\* A's lane.
C1_BranchPoint ==
    Done =>
        \A a, b, c \in 1..Len(commits) :
            (b # c /\ IsChildOf(commits[b], commits[a]) /\ IsChildOf(commits[c], commits[a]))
            => /\ commits[b].lane # commits[c].lane
               /\ (commits[b].lane = commits[a].lane) # (commits[c].lane = commits[a].lane)

\* the kinds of the edges drawn from node `from` to node `to`
KindsBetween(E, from, to) ==
    {E[e].kind : e \in {k \in 1..Len(E) : E[k].from = from /\ E[k].to = to}}

\* C2: whenever a commit M has two parents P1 and P2 that are both in the
\* window, both edges (M,P1) and (M,P2) are drawn and at least one of them
\* is a branch/merge edge (a curve between two different lanes).
C2_Merge ==
    Done =>
        \A m \in 1..Len(commits) :
            \A p, q \in 1..Len(commits[m].parents) :
                LET P1 == commits[m].parents[p]
                    P2 == commits[m].parents[q]
                    E  == Edges(commits)
                IN  (p < q /\ P1 \in ShaSet(commits) /\ P2 \in ShaSet(commits))
                    => /\ KindsBetween(E, commits[m].sha, P1) # {}
                       /\ KindsBetween(E, commits[m].sha, P2) # {}
                       /\ "path" \in KindsBetween(E, commits[m].sha, P1)
                                     \cup KindsBetween(E, commits[m].sha, P2)

\* newest first, each commit's only parent is the next commit of the list,
\* the last commit is a root
Linear(raw) ==
    /\ Len(raw) >= 1
    /\ \A i \in 1..Len(raw) :
           raw[i].parents = IF i < Len(raw) THEN <<raw[i + 1].sha>> ELSE <<>>

\* C3: for a linear history of N >= 1 commits the layout puts all N nodes
\* on one and the same lane, lane 0.
C3_LinearOneLane ==
    (Done /\ Linear(rawCommits)) =>
        /\ Len(commits) = Len(rawCommits)
        /\ \A i \in 1..Len(commits) : commits[i].lane = 0 /\ commits[i].x = 0

C3_Witness ==
    /\ Done /\ Linear(rawCommits) /\ Len(rawCommits) = MaxCommits
    /\ \A i \in 1..Len(commits) : commits[i].lane = 0

\* C4: after the layout of a self-contained window (every referenced parent
\* is a commit of the input) no lane is left active, also when the history
\* contains merges and several roots joined by a merge.
C4_NoLeakedLanes ==
    (Done /\ SelfContained(rawCommits)) => activeLanes = {}


PrimaryMissing(commit) ==
    Len(commit.parents) > 0 /\ commit.parents[1] \notin ShaSet(rawCommits)

\* the commit the next iteration of the lane loop processes
Current == Reverse(rawCommits)[idx + 1]

InLaneLoop == pc = "lanes" /\ idx < Len(rawCommits)

\* the lane given by the iteration is the lowest lane that was not active
GivenLowestFree ==
    LET lane == commitToLane'[Current.sha]
    IN  /\ lane \notin activeLanes
        /\ \A l \in 0..(lane - 1) : l \in activeLanes

\* no edge is drawn to a sha without a node, whatever the search shows
NoDanglingEdge ==
    Done =>
        \A shown \in SUBSET (1..Len(commits)) :
            LET D == FilteredCommits(commits, shown, 1)
                E == Edges(D)
            IN  \A e \in 1..Len(E) : E[e].to \in ShaSet(D)

\* the window [x(missing)] gives one node for x on lane 0 and no edge
SingleTruncated ==
    (Done /\ rawCommits = <<[sha |-> 1, parents |-> <<Missing>>]>>) =>
        /\ Len(commits) = 1 /\ commits[1].sha = 1 /\ commits[1].lane = 0
        /\ Edges(commits) = <<>>

FirstChildAssigned(commit) ==
    /\ FirstChild(rawCommits, commit.sha) # 0
    /\ rawCommits[FirstChild(rawCommits, commit.sha)].sha \in DOMAIN commitToLane

\* C5 as claimed: a parent sha without a commit in the input never produces
\* an edge, and a commit whose primary parent is missing from the window is
\* given a freshly allocated lane (the lowest lane not active).
C5_TruncatedFresh ==
    /\ [](NoDanglingEdge /\ SingleTruncated)
    /\ [][(InLaneLoop /\ PrimaryMissing(Current)) => GivenLowestFree]_vars

\* C5 amended: a parent sha without a commit in the input never produces
\* an edge; a commit whose primary parent is missing from the window is
\* given the lowest lane not active at that moment, unless its first child
\* (the newest commit naming it as primary parent) already has a lane, and
\* then it is given that child's lane.
C5_TruncatedWindow ==
    /\ [](NoDanglingEdge /\ SingleTruncated)
    /\ [][(InLaneLoop /\ PrimaryMissing(Current)) =>
             IF FirstChildAssigned(Current)
             THEN commitToLane'[Current.sha] =
                    commitToLane[rawCommits[FirstChild(rawCommits, Current.sha)].sha]
             ELSE GivenLowestFree]_vars

C5_Witness ==
    /\ Done
    /\ \E i \in 1..Len(commits) :
           /\ PrimaryMissing(commits[i])
           /\ commits[i].lane > 0
           /\ ~ \E e \in 1..Len(Edges(commits)) : Edges(commits)[e].from = commits[i].sha

FirstOccurrence(raw, sha) == Min({j \in 1..Len(raw) : raw[j].sha = sha})

\* C6: when a sha occurs more than once in the input, the single node
\* produced for it keeps the data and the row of the first occurrence.
C6_DuplicateKeepsFirst ==
    Done =>
        \A i \in 1..Len(rawCommits) :
            LET sha   == rawCommits[i].sha
                first == FirstOccurrence(rawCommits, sha)
            IN  /\ Cardinality({k \in 1..Len(commits) : commits[k].sha = sha}) = 1
                /\ NodeOf(sha).parents = rawCommits[first].parents
                /\ NodeOf(sha).y = (first - 1) * RowHeight

\* C7: for an input with unique shas the returned node list has the length
\* and order of the input: node i carries the sha of input commit i and
\* row i (y = 80 * i, counted from 0).
C7_SameOrderAndLength ==
    (Done /\ UniqueShas(rawCommits)) =>
        /\ Len(commits) = Len(rawCommits)
        /\ \A i \in 1..Len(rawCommits) :
               /\ commits[i].sha = rawCommits[i].sha
               /\ commits[i].parents = rawCommits[i].parents
               /\ commits[i].y = 80 * (i - 1)

C7_Witness ==
    /\ Done /\ UniqueShas(rawCommits) /\ Len(rawCommits) = MaxCommits
    /\ commits[MaxCommits].y = 80 * (MaxCommits - 1)
    /\ commits[1].sha # commits[MaxCommits].sha

\* the parent references of the displayed nodes whose sha is displayed too
ShownRefs(D) ==
    {<<i, p>> \in (1..Len(D)) \X (1..MaxParents + 1) :
        p <= Len(D[i].parents) /\ D[i].parents[p] \in ShaSet(D)}

LaneOfSha(D, sha) == D[FindCommit(D, sha)].lane

\* C8: for each displayed node and each entry of its parents list whose sha
\* has a displayed node exactly one edge is drawn, and no other edge; the
\* edge is a straight line exactly when child and parent lanes are equal,
\* and a curve otherwise.
C8_EdgeRouting ==
    Done =>
        \A shown \in SUBSET (1..Len(commits)) :
            LET D == FilteredCommits(commits, shown, 1)
                E == Edges(D)
            IN  /\ Len(E) = Cardinality(ShownRefs(D))
                /\ \A r \in ShownRefs(D) :
                       Cardinality({e \in 1..Len(E) :
                           /\ E[e].from = D[r[1]].sha
                           /\ E[e].to = D[r[1]].parents[r[2]]}) = 1
                /\ \A e \in 1..Len(E) :
                       /\ E[e].kind \in {"line", "path"}
                       /\ E[e].kind = "line"
                            <=> LaneOfSha(D, E[e].from) = LaneOfSha(D, E[e].to)

C8_Witness ==
    /\ Done
    /\ \E e, f \in 1..Len(Edges(commits)) :
           Edges(commits)[e].kind = "line" /\ Edges(commits)[f].kind = "path"
    /\ \E i \in 1..Len(commits) : Missing \in Range(commits[i].parents)

\* the names of the refs that point at sha, in ref-list order
RECURSIVE NamesFor(_, _, _)
NamesFor(refs, sha, k) ==
    IF k = 0 THEN <<>>
    ELSE IF refs[k].sha = sha
         THEN Append(NamesFor(refs, sha, k - 1), refs[k].name)
         ELSE NamesFor(refs, sha, k - 1)

\* C9: after the layout the labels of each node are exactly the names of
\* the refs whose sha is the node's sha, in ref-list order; a ref whose sha
\* has no node adds no label anywhere.
C9_RefLabels ==
    Done =>
        \A i \in 1..Len(commits) :
            commits[i].branches = NamesFor(branches, commits[i].sha, Len(branches))

C9_Witness ==
    /\ Done
    /\ \E i \in 1..Len(commits) :
           Len(commits[i].branches) = 2 /\ commits[i].branches[1] # commits[i].branches[2]

\* C10: for every name, the empty one and names whose hash wraps or turns
\* negative included, getBranchColor returns one of the six palette
\* entries (never undefined); the empty name gives the first entry and a
\* one-character name the entry at its character code modulo 6.
C10_ColorInPalette ==
    pc = "colored" =>
        /\ color \in Range(colors)
        /\ Len(colors) = 6
        /\ Len(branchName) = 0 => color = "rgb(0, 212, 255)"
        /\ Len(branchName) = 1 => color = colors[(branchName[1] % 6) + 1]

C10_Witness ==
    /\ pc = "colored"
    /\ Len(branchName) = MaxNameLen
    /\ IsNegative(hash)
    /\ color \in Range(colors)

\* C11: the nodes computed for a (commits, refs) input depend only on that
\* input: a layout of an input that was laid out before gives the nodes it
\* gave then (and so the same edges and colours), whatever was laid out in
\* between.
C11_Deterministic ==
    Done =>
        \A k \in 1..Len(history) :
            (history[k].rawCommits = rawCommits /\ history[k].branches = branches)
            => /\ history[k].commits = commits
               /\ Edges(history[k].commits) = Edges(commits)

C11_Witness ==
    /\ Done
    /\ Len(history) = 2
    /\ history[1].rawCommits = rawCommits /\ history[1].branches = branches
    /\ history[2].rawCommits # rawCommits
    /\ history[1].commits = commits
    /\ Len(commits) = MaxRepeatCommits

\* C12: the layout completes on every input (empty list, parents outside
\* the window, duplicate shas, commits without a parents list) and no step
\* of it changes the input commit list or the ref list.
C12_CompletesUntouched ==
    /\ [](pc # "done" => ENABLED Next)
    /\ [][rawCommits' = rawCommits /\ branches' = branches]_vars

C12_Witness ==
    /\ Done
    /\ \E i, j \in 1..Len(rawCommits) :
           /\ ~HasParents(rawCommits[i])
           /\ ~HasParents(commits[1])
           /\ i < j /\ rawCommits[i].sha = rawCommits[j].sha
    /\ Len(branches) = 1

\* C13: every returned node has a lane that is an integer with
\* 0 <= lane < number of commits of the input, and x = 40 * lane.
C13_LaneRange ==
    Done =>
        \A i \in 1..Len(commits) :
            /\ commits[i].lane \in 0..(Len(rawCommits) - 1)
            /\ commits[i].x = 40 * commits[i].lane

C13_Witness ==
    /\ Done
    /\ \E i \in 1..Len(commits) : commits[i].lane > 0 /\ commits[i].x > 0
    /\ \E i \in 1..Len(commits) : commits[i].lane = 0

\* C14: in the final layout, for every commit and a parent of it in the
\* window that are on one lane, no other commit on a row strictly between
\* their rows is on that lane.
C14_LaneExclusive ==
    Done =>
        \A c, p, o \in 1..Len(commits) :
            (/\ IsChildOf(commits[c], commits[p])
             /\ commits[c].lane = commits[p].lane
             /\ c < o /\ o < p)
            => commits[o].lane # commits[c].lane

\* the commits of the window that name sha as a parent and have no lane in c2l
UnassignedChildren(c2l, sha) ==
    {i \in 1..Len(rawCommits) :
        /\ HasParents(rawCommits[i])
        /\ Includes(rawCommits[i].parents, sha)
        /\ rawCommits[i].sha \notin DOMAIN c2l}

\* C15: no step removes a lane from the active set while a commit already
\* placed on that lane still has a child in the window without a lane.
C15_ReleaseTiming ==
    [][\A l \in activeLanes \ activeLanes' :
           \A sha \in DOMAIN commitToLane' :
               commitToLane'[sha] = l => UnassignedChildren(commitToLane', sha) = {}]_vars

\* commit number i of the layout has the node of sha as its primary parent
PrimaryParentIs(i, sha) ==
    /\ HasParents(commits[i])
    /\ Len(commits[i].parents) > 0
    /\ commits[i].parents[1] = sha

\* C16: of two commits with the same primary parent P in the window, the
\* newer one is on P's lane and the other one is on a lane different from
\* P's.
C16_TieBreak ==
    Done =>
        \A n, o, p \in 1..Len(commits) :
            (/\ n < o
             /\ PrimaryParentIs(n, commits[p].sha)
             /\ PrimaryParentIs(o, commits[p].sha))
            => /\ commits[n].lane = commits[p].lane
               /\ commits[o].lane # commits[p].lane

\* the commit of the iteration that has just ended
Last == Reverse(rawCommits)[idx]

\* C17: whenever an iteration gives its commit a fresh lane (not the lane of
\* its primary parent or primary child), that lane is the smallest one not
\* in the active set at that moment and it is added to the active set (the
\* release at the end of the same iteration takes it out again only when no
\* child of the commit is left without a lane); so a released lane below an
\* active one is the next fresh lane.
C17_LowestFresh ==
    [][(InLaneLoop /\ taken' \in {"branch", "fallback"}) =>
           LET lane == commitToLane'[Current.sha]
           IN  /\ lane \notin activeLanes
               /\ \A l \in 0..(lane - 1) : l \in activeLanes
               /\ activeLanes' =
                      IF UnassignedChildren(commitToLane', Current.sha) = {}
                      THEN activeLanes
                      ELSE activeLanes \cup {lane}]_vars

C17_Witness ==
    /\ pc = "lanes" /\ idx > 1
    /\ taken \in {"branch", "fallback"}
    /\ commitToLane[Last.sha] = 1
    /\ activeLanes = {0, 1}

\* C18: lanes are written once: no step of a layout gives a sha that has a
\* lane a different one, and in the result the lane of a node is the
\* recorded one.
C18_WriteOnce ==
    [][/\ pc = "lanes" =>
              \A sha \in DOMAIN commitToLane : commitToLane'[sha] = commitToLane[sha]
       /\ (pc = "lanes" /\ pc' = "done") =>
              \A i \in 1..Len(commits') :
                  commits'[i].lane = commitToLane[commits'[i].sha]]_vars

\* the primary parent of commit number i of the input is in the window
PrimaryInWindow(i) ==
    /\ HasParents(rawCommits[i])
    /\ Len(rawCommits[i].parents) > 0
    /\ rawCommits[i].parents[1] \in ShaSet(rawCommits)

LayoutAgrees == Done => commits = processCommitsForGraph(rawCommits, branches)

ShasOf(nodes) == [i \in 1..Len(nodes) |-> nodes[i].sha]

AllLoadsDone == \A i \in 1..Len(loads) : loads[i].at = "done"

\* C21: when loadData was started again for a newer selection before an
\* older call completed, then once all calls have completed (with success)
\* the displayed commits are those of the newest request, whichever answer
\* came last.
C21_NewestShown ==
    (/\ Len(loads) >= 2
     /\ AllLoadsDone
     /\ \A i \in 1..Len(loads) : loads[i].gotCommits)
    => ShasOf(commits) = ShasOf(CommitsFor(loads[Len(loads)].sel))

\* C22: after the first load of a repository, both requests successful,
\* every fetched branch whose tip is among the fetched commits is among the
\* labels of that commit.
C22_LabelsOfSameLoad ==
    (/\ Len(loads) = 1
     /\ loads[1].at = "done" /\ loads[1].gotRefs /\ loads[1].gotCommits)
    => \A k \in 1..Len(repo.refs) :
           repo.refs[k].sha \in Range(ShasOf(commits))
           => Includes(NodeOf(repo.refs[k].sha).branches, repo.refs[k].name)

Failed(e, k) == e.stepResults[k].status = "failed"

\* C23: the steps run in script order, one at a time: the step results are
\* always the results of a prefix of the script's steps, in order; no step
\* runs after a failed step without continueOnError; and the run does not
\* end before the last step otherwise.
C23_LinearExecution ==
    \A i \in 1..Len(runs) :
        LET e     == runs[i].execution
            steps == runs[i].script.steps
            n     == Len(e.stepResults)
        IN  /\ n <= Len(steps)
            /\ \A k \in 1..n : e.stepResults[k].stepId = k
            /\ \A k \in 1..(n - 1) : Failed(e, k) => steps[k].continueOnError
            /\ (runs[i].at # "loop" /\ n < Len(steps))
               => (Failed(e, n) /\ ~steps[n].continueOnError)

C23_Witness ==
    \E i \in 1..Len(runs) :
        LET e == runs[i].execution
        IN  /\ runs[i].at = "returned"
            /\ Len(e.stepResults) = 3
            /\ Failed(e, 1) /\ Failed(e, 2) /\ ~Failed(e, 3)

\* C24: when executeScript has returned, the status is not 'running' and
\* the end time is set; the status is 'success' exactly when no recorded
\* step failed, 'partial' exactly when a step failed and a step succeeded,
\* 'failed' exactly when a step failed and none succeeded; every recorded
\* step result is 'success' or 'failed'.
C24_FinalStatus ==
    \A i \in 1..Len(runs) :
        LET e       == runs[i].execution
            R       == 1..Len(e.stepResults)
            anyFail == \E k \in R : e.stepResults[k].status = "failed"
            anyOk   == \E k \in R : e.stepResults[k].status = "success"
        IN  /\ \A k \in R : e.stepResults[k].status \in {"success", "failed"}
            /\ runs[i].at = "returned" =>
                   /\ e.status # "running"
                   /\ e.endTime # 0
                   /\ (e.status = "success") = ~anyFail
                   /\ (e.status = "partial") = (anyFail /\ anyOk)
                   /\ (e.status = "failed") = (anyFail /\ ~anyOk)

C24_Witness ==
    \E i \in 1..Len(runs) :
        /\ runs[i].at = "returned"
        /\ runs[i].execution.status = "partial"
        /\ Len(runs[i].execution.stepResults) = 2

\* the execute handler is called for a script id that is not stored or
\* whose stored script is disabled
RefusedCall(id) ==
    /\ request'.handler = "execute" /\ request'.id = id
    /\ LET k == FirstIndex(scripts, id)
       IN  k = 0 \/ ~scripts[k].enabled

\* C25: executing a script id that is not in the store, or whose stored
\* script is disabled, returns a failure, starts no run, and leaves the
\* stored scripts (lastRun included) and the execution history unchanged.
C25_RefusedExecution ==
    [][\A id \in 1..MaxScripts :
           RefusedCall(id) =>
               /\ reply' = Failure("execute", id)
               /\ runs' = runs
               /\ scripts' = scripts
               /\ executionHistory' = executionHistory]_vars

C25_Witness ==
    /\ request = [handler |-> "execute", id |-> 1]
    /\ reply = Failure("execute", 1)
    /\ FirstIndex(scripts, 1) # 0
    /\ ~scripts[FirstIndex(scripts, 1)].enabled
    /\ 1 \in DOMAIN executionHistory

\* C26: no lost update across an execution: the write-back at the end of
\* an execution leaves every script other than the executed one as the
\* store held it just before (created ones stay, updated ones keep the
\* update, deleted ones stay deleted)
C26_NoLostUpdate ==
    [][request'.handler = "end" =>
           Without(scripts', request'.id) = Without(scripts, request'.id)]_vars

\* C27: the history of each script holds at most 20 executions, and they
\* are the most recent ones in execution order: consecutive executions,
\* oldest first, ending with the script's latest execution
C27_BoundedHistory ==
    \A id \in DOMAIN executionHistory :
        LET h == executionHistory[id]
            k == FirstIndex(scripts, id)
        IN  /\ Len(h) \in 1..HistoryLimit
            /\ \A i \in 1..(Len(h) - 1) : h[i + 1].startTime = h[i].startTime + 1
            /\ k # 0 /\ h[Len(h)].startTime = scripts[k].lastRun

C27_Witness ==
    /\ 1 \in DOMAIN executionHistory
    /\ Len(executionHistory[1]) = HistoryLimit
    /\ executionHistory[1][1].startTime = 2
    /\ request = [handler |-> "execute", id |-> 1]

\* a call of executeScript is at one of the given positions
ExecuteCallAt(positions) ==
    \E i \in 1..Len(calls) : calls[i].op = "execute" /\ calls[i].at \in positions

\* C28 as stated: isExecuting is true exactly from the start of
\* executeScript until its call to the main process has settled
C28_ExecutingUntilSettled == isExecuting <=> ExecuteCallAt({"executeScript"})

\* C28: isExecuting is true exactly from the start of executeScript
\* until the function returns, whatever the outcome of its call to the main
\* process: until that call has settled and, after a successful result for
\* a listed script, the reload of the scripts has settled too;
\* currentExecution is reset to null when an execution starts and is set
\* to an execution only from a successful result
C28_ExecutingUntilReturned ==
    /\ [](isExecuting <=> ExecuteCallAt({"executeScript", "reload"}))
    /\ [][/\ (Len(calls') > Len(calls) /\ calls'[Len(calls')].op = "execute")
               => currentExecution' = <<>>
          /\ (currentExecution' # currentExecution /\ currentExecution' # <<>>)
               => \E i \in 1..Len(calls) :
                      /\ calls[i].at = "executeScript"
                      /\ calls'[i].result = "success"
                      /\ currentExecution' = <<i>>]_vars

C28_Witness ==
    /\ Len(calls) = 3
    /\ calls[2].op = "execute" /\ calls[2].at = "done" /\ calls[2].result = "throw"
    /\ calls[3].op = "execute" /\ calls[3].at = "reload"
    /\ isExecuting /\ currentExecution = <<3>>

\* C29: after any sequence of repository-store actions selectedRepo is
\* null or identical to the entry of repositories that has the same id
C29_SelectionInList ==
    selectedRepo # <<>> =>
        selectedRepo = FindRepo(repositories, selectedRepo[1].id)

\* the value of the last broadcast, online where nothing was broadcast yet
LastBroadcast(sent) == IF sent = <<>> THEN TRUE ELSE sent[Len(sent)]

\* C30: every status-changed broadcast carries a value different from the
\* one broadcast before it, the first one is 'offline', and the
\* check-status handler returns the last broadcast value, under any
\* interleaving of the callbacks of overlapping checks
C30_BroadcastOnChange ==
    /\ [](/\ \A i \in 1..(Len(broadcasts) - 1) : broadcasts[i + 1] # broadcasts[i]
          /\ broadcasts # <<>> => broadcasts[1] = FALSE)
    /\ [][request'.handler = "checkStatus" =>
              checkStatus' = <<LastBroadcast(broadcasts')>>]_vars

C30_Witness ==
    /\ broadcasts = <<FALSE, TRUE, FALSE>>
    /\ checks = <<"failed", "responded", "failed">>
    /\ request.handler = "checkStatus"
    /\ checkStatus = <<FALSE>>
====
